---- MODULE Spec2Model ----
(***************************************************************************)
(* Model of the csv-discrepancy-finder pipeline (src/main.py):             *)
(*   make_mapping_dict, read_source_csv, make_difference_entry,            *)
(*   compare_sources and its calls of make_result_csv.                     *)
(*                                                                         *)
(* Cell values of the source files are strings that the program lowers and *)
(* strips, so they are modelled as sequences of one-character strings.     *)
(* Header names, standard field names and report labels are never looked   *)
(* into by the program and are modelled as TLA+ strings.                   *)
(***************************************************************************)
EXTENDS Integers, Sequences, FiniteSets, TLC

VARIABLES
    pc,                     \* position of the running function
    error,                  \* the exception that ended the run, or "none"
    \* ---- make_mapping_dict
    mapping_csv,            \* the lines of the mapping / translations file
    mode,
    line_idx,               \* number of lines of the file consumed
    mapping_dict,
    \* ---- read_source_csv
    translations_dict,
    filtering_list,
    headers,                \* the header row as read (before renaming)
    rows,                   \* the data rows of the source file
    row_idx,                \* number of data rows consumed
    entries,
    missing_pks,
    duplicates,
    seen_pks,
    \* ---- compare_sources
    source_1_entries,
    source_2_entries,
    source_1_missingPK,
    source_2_missingPK,
    source_1_duplicates,
    source_2_duplicates,
    source_1_entries_copy,
    source_2_entries_copy,
    source_1_extra,
    source_2_extra,
    differences,
    entry_idx,              \* number of records of source_1_entries_copy visited
    report_idx,             \* number of the guarded report calls passed
    reports,                \* the calls of make_result_csv, in order
    \* ---- make_difference_entry called on its own
    dict_1,
    dict_2,
    difference

mapVars  == <<mapping_csv, mode, line_idx>>
readVars == <<translations_dict, filtering_list, headers, rows, row_idx,
              entries, missing_pks, duplicates, seen_pks>>
cmpVars  == <<source_1_entries, source_2_entries, source_1_missingPK,
              source_2_missingPK, source_1_duplicates, source_2_duplicates,
              source_1_entries_copy, source_2_entries_copy, source_1_extra,
              source_2_extra, differences, entry_idx, report_idx, reports>>
diffVars == <<dict_1, dict_2, difference>>
vars     == <<pc, error, mapping_dict, mapVars, readVars, cmpVars, diffVars>>

----------------------------------------------------------------------------
(* Bounds of the model. *)

MaxRows  == 3       \* data rows of a source file in the read_source_csv runs
MaxRules == 2       \* rules of the filtering list
MaxLines == 3       \* data lines of a mapping file
MaxSourceRows == 2  \* data rows of each source file in the compare_sources runs

----------------------------------------------------------------------------
(* Strings as sequences of characters. *)

Range(s) == {s[i] : i \in DOMAIN s}

\* str.lower() on one character
LowerChar(c) ==
    CASE c = "A" -> "a"
      [] c = "B" -> "b"
      [] c = "X" -> "x"
      [] c = "Y" -> "y"
      [] c = "Z" -> "z"
      [] OTHER   -> c

\* the code point of a character, for the comparison of strings in sort()
CodePoint(c) ==
    CASE c = " " -> 32
      [] c = "*" -> 42
      [] c = "A" -> 65
      [] c = "B" -> 66
      [] c = "X" -> 88
      [] c = "Y" -> 89
      [] c = "Z" -> 90
      [] c = "a" -> 97
      [] c = "b" -> 98
      [] c = "c" -> 99
      [] c = "e" -> 101
      [] c = "m" -> 109
      [] c = "s" -> 115
      [] c = "x" -> 120
      [] c = "y" -> 121
      [] c = "z" -> 122

IsSpaceChar(c) == c = " "

Lower(x) == [i \in DOMAIN x |-> LowerChar(x[i])]

RECURSIVE LStrip(_)
LStrip(x) ==
    IF x # <<>> /\ IsSpaceChar(Head(x)) THEN LStrip(Tail(x)) ELSE x

RECURSIVE RStrip(_)
RStrip(x) ==
    IF x # <<>> /\ IsSpaceChar(x[Len(x)])
    THEN RStrip(SubSeq(x, 1, Len(x) - 1))
    ELSE x

\* str.strip()
Strip(x) == RStrip(LStrip(x))

\* str.isspace(): at least one character and all of them whitespace
IsSpace(x) == x # <<>> /\ \A i \in DOMAIN x : IsSpaceChar(x[i])

\* x < y on Python strings
RECURSIVE StrLess(_, _)
StrLess(x, y) ==
    IF y = <<>> THEN FALSE
    ELSE IF x = <<>> THEN TRUE
    ELSE IF Head(x) # Head(y) THEN CodePoint(Head(x)) < CodePoint(Head(y))
    ELSE StrLess(Tail(x), Tail(y))

normalize(x) == Strip(Lower(x))

----------------------------------------------------------------------------
(* Dictionaries are functions; d[k] = v on a dictionary. *)

DictPut(d, k, v) ==
    [x \in (DOMAIN d) \cup {k} |-> IF x = k THEN v ELSE d[x]]

EmptyDict == [x \in {} |-> <<>>]

\* list.remove(x): drops the first element equal to x
RECURSIVE ListRemove(_, _)
ListRemove(list, x) ==
    IF list = <<>> THEN list
    ELSE IF Head(list) = x THEN Tail(list)
    ELSE <<Head(list)>> \o ListRemove(Tail(list), x)

\* one insertion of the stable sort by primary key
RECURSIVE SortInsert(_, _)
SortInsert(sorted, e) ==
    IF sorted = <<>> THEN <<e>>
    ELSE IF StrLess(e["primary_key"], Head(sorted)["primary_key"])
         THEN <<e>> \o sorted
         ELSE <<Head(sorted)>> \o SortInsert(Tail(sorted), e)

\* list.sort(key=lambda x: x['primary_key'])
RECURSIVE SortByPk(_)
SortByPk(list) ==
    IF list = <<>> THEN list
    ELSE SortInsert(SortByPk(SubSeq(list, 1, Len(list) - 1)), list[Len(list)])

----------------------------------------------------------------------------
(* Configuration: config/sources.py. *)

primary_keys  == <<"id">>
source_1_name == "Test 1"
source_2_name == "Test 2"

----------------------------------------------------------------------------
(* read_source_csv *)

\* the loop over the header row: the positions of the key columns, the
\* renamed header row and the (header, position) pairs of the value columns
RECURSIVE HeaderLoop(_, _, _)
HeaderLoop(st, idx, md) ==
    IF idx > Len(st.headers) THEN st
    ELSE LET header == st.headers[idx] IN
         IF header \notin DOMAIN md
         THEN HeaderLoop(st, idx + 1, md)
         ELSE IF md[header] \in Range(primary_keys)
         THEN HeaderLoop([st EXCEPT !.pk_indices = Append(@, idx)], idx + 1, md)
         ELSE HeaderLoop([st EXCEPT !.headers[idx] = md[header],
                                    !.headers_to_compare = Append(@, <<header, idx>>)],
                         idx + 1, md)

ReadHeaders(hs, md) ==
    HeaderLoop([headers |-> hs, pk_indices |-> <<>>, headers_to_compare |-> <<>>],
               1, md)

\* pk = pk + entry[pk_idx] + " " over the key columns
RECURSIVE BuildPk(_, _)
BuildPk(entry, pk_indices) ==
    IF pk_indices = <<>> THEN <<>>
    ELSE BuildPk(entry, SubSeq(pk_indices, 1, Len(pk_indices) - 1))
         \o entry[pk_indices[Len(pk_indices)]] \o <<" ">>

\* the translation lookup followed by normalize
TranslateValue(value, td) ==
    IF value \in DOMAIN td THEN normalize(td[value]) ELSE normalize(value)

\* the loop that fills entry_dict from the value columns
RECURSIVE FillEntry(_, _, _, _)
FillEntry(entry_dict, entry, hdr, td) ==
    IF hdr.headers_to_compare = <<>> THEN entry_dict
    ELSE LET item       == Head(hdr.headers_to_compare)
             header_idx == item[2]
         IN  FillEntry(DictPut(entry_dict, hdr.headers[header_idx],
                               TranslateValue(entry[header_idx], td)),
                       entry,
                       [hdr EXCEPT !.headers_to_compare = Tail(@)],
                       td)

\* a row with fewer cells than a column the loop body reads
ShortRow(entry, hdr) ==
    \/ \E i \in DOMAIN hdr.pk_indices : hdr.pk_indices[i] > Len(entry)
    \/ \E i \in DOMAIN hdr.headers_to_compare :
           hdr.headers_to_compare[i][2] > Len(entry)

\* the filtering loop with a break at the first matching rule
RECURSIVE FilterEntryBreak(_, _)
FilterEntryBreak(entry_dict, fl) ==
    IF fl = <<>> THEN "keep"
    ELSE LET fieldname == Head(fl)[1]
             value     == Head(fl)[2]
         IN  IF fieldname \notin DOMAIN entry_dict THEN "KeyError"
             ELSE IF entry_dict[fieldname] = value THEN "ignore"
             ELSE FilterEntryBreak(entry_dict, Tail(fl))

\* the filtering loop: every rule is evaluated, a rule on a field the record
\* lacks raises KeyError, a match sets ignore
RECURSIVE FilterEntry(_, _)
FilterEntry(entry_dict, fl) ==
    IF fl = <<>> THEN "keep"
    ELSE LET fieldname == Head(fl)[1]
             value     == Head(fl)[2]
         IN  IF fieldname \notin DOMAIN entry_dict THEN "KeyError"
             ELSE LET rest == FilterEntry(entry_dict, Tail(fl)) IN
                  IF rest = "KeyError" THEN rest
                  ELSE IF entry_dict[fieldname] = value THEN "ignore"
                  ELSE rest

FormatMessage == "IndexError: Something went wrong with the formatting of this source"

\* line 236 with "or pk.isspace()" left out
MissingPkEmptyOnly(pk_raw) == pk_raw = <<>>

\* the entry is missing values for all primary keys
MissingPk(pk_raw) == pk_raw = <<>> \/ IsSpace(pk_raw)

\* the duplicate branch without the removal of the first-seen record
PopulateEntryKeepFirst(st, pk_raw, entry_dict) ==
    IF MissingPk(pk_raw)
    THEN [st EXCEPT !.missing_pks = Append(@, entry_dict)]
    ELSE LET pk == normalize(pk_raw) IN
         IF pk \in st.seen_pks
         THEN [st EXCEPT !.duplicates = Append(@, entry_dict)]
         ELSE [st EXCEPT !.seen_pks = @ \cup {pk},
                         !.entries = Append(@, entry_dict)]

\* "populate the entry list": where a kept record goes
PopulateEntry(st, pk_raw, entry_dict) ==
    IF MissingPk(pk_raw)
    THEN [st EXCEPT !.missing_pks = Append(@, entry_dict)]
    ELSE LET pk == normalize(pk_raw) IN
         IF pk \in st.seen_pks
         THEN LET dups == Append(st.duplicates, entry_dict) IN
              IF pk \in {st.entries[i]["primary_key"] : i \in DOMAIN st.entries}
              THEN LET to_delete == SelectSeq(st.entries,
                                       LAMBDA x : x["primary_key"] = pk)
                   IN  IF Len(to_delete) = 1
                       THEN [st EXCEPT !.duplicates = Append(dups, to_delete[1]),
                                       !.entries = ListRemove(@, to_delete[1])]
                       ELSE [st EXCEPT !.duplicates = dups,
                                       !.error = FormatMessage]
              ELSE [st EXCEPT !.duplicates = dups]
         ELSE [st EXCEPT !.seen_pks = @ \cup {pk},
                         !.entries = Append(@, entry_dict)]

\* the body of "for entry in reader"
RowStep(st, entry, hdr, td, fl) ==
    IF ShortRow(entry, hdr) THEN [st EXCEPT !.error = "IndexError"]
    ELSE LET pk_raw     == BuildPk(entry, hdr.pk_indices)
             entry_dict == FillEntry([primary_key |-> normalize(pk_raw)],
                                     entry, hdr, td)
             verdict    == FilterEntry(entry_dict, fl)
         IN  CASE verdict = "KeyError" -> [st EXCEPT !.error = "KeyError"]
               [] verdict = "ignore"   -> st
               [] OTHER                -> PopulateEntry(st, pk_raw, entry_dict)

\* the record a row is turned into (the entry_dict of the loop body)
EntryDict(entry, hdr, td) ==
    FillEntry([primary_key |-> normalize(BuildPk(entry, hdr.pk_indices))],
              entry, hdr, td)

ReadStart == [entries |-> <<>>, missing_pks |-> <<>>, duplicates |-> <<>>,
              seen_pks |-> {}, error |-> "none"]

RECURSIVE ReadLoop(_, _, _, _, _)
ReadLoop(st, rs, hdr, td, fl) ==
    IF rs = <<>> \/ st.error # "none" THEN st
    ELSE ReadLoop(RowStep(st, Head(rs), hdr, td, fl), Tail(rs), hdr, td, fl)

\* the whole function: (entries, missing_pks, duplicates) or the exception
read_source_csv(hs, rs, md, td, fl) ==
    LET st == ReadLoop(ReadStart, rs, ReadHeaders(hs, md), td, fl) IN
    IF st.error # "none"
    THEN [error |-> st.error]
    ELSE [error |-> "none",
          entries |-> SortByPk(st.entries),
          missing_pks |-> st.missing_pks,
          duplicates |-> SortByPk(st.duplicates)]

----------------------------------------------------------------------------
(* The inputs of the read_source_csv runs. *)

SeqsUpTo(S, n) == UNION {[1..k -> S] : k \in 0..n}

\* a mapping as make_mapping_dict returns it: source header -> standard name
SampleMapping ==
    [h \in {"ID", "Id", "Key", "Ref", "Name", "State"} |->
        CASE h = "ID"    -> "id"
          [] h = "Ref"   -> "id"
          [] h = "Id"    -> "id"
          [] h = "Key"   -> "id"
          [] h = "Name"  -> "full_name"
          [] h = "State" -> "status"]

\* a translations dictionary: raw value -> replacement
SampleTranslations == (<<"x">> :> <<"Z", " ">>)

HeaderChoices == {<<"ID", "Name">>, <<"Name", "Note">>, <<"Id", "Key", "Name">>}

Cells(h) ==
    CASE h = "ID"    -> {<<>>, <<"a">>, <<"A", " ">>, <<"b">>}
      [] h = "Id"    -> {<<>>, <<"a">>}
      [] h = "Key"   -> {<<>>, <<"b">>}
      [] h = "Ref"   -> {<<" ">>, <<"a">>, <<"B">>, <<"c">>}
      [] h = "Name"  -> {<<"x">>, <<"Y">>}
      [] h = "State" -> {<<"s">>}
      [] h = "Tag"   -> {<<"a">>, <<"c">>}
      [] OTHER       -> {<<"z">>}

AllCells ==
    UNION {Cells(h) : h \in {"ID", "Id", "Key", "Ref", "Name", "State", "Tag", "Note"}}

\* the rows a file with this header row can hold, and the blank line
RowsOf(hs) ==
    {r \in [1..Len(hs) -> AllCells] : \A i \in 1..Len(hs) : r[i] \in Cells(hs[i])}
    \cup {<<>>}

FilterRules == {<<"full_name", <<"z">>>>, <<"primary_key", <<"a">>>>,
                <<"status", <<"s">>>>}

FilterLists ==
    {fl \in SeqsUpTo(FilterRules, MaxRules) :
        \A i, j \in DOMAIN fl : i # j => fl[i] # fl[j]}

\* normalized records for the calls of make_difference_entry on its own
DiffRecords ==
    UNION {[fs \cup {"primary_key"} -> {<<"a">>, <<"b">>, <<"y">>}] :
              fs \in SUBSET {"full_name", "status"}}

Idle == <<>>

MapIdle ==
    /\ mapping_csv = Idle /\ mode = Idle /\ line_idx = 0

ReadIdle ==
    /\ translations_dict = Idle /\ filtering_list = Idle /\ headers = Idle
    /\ rows = Idle /\ row_idx = 0 /\ entries = Idle /\ missing_pks = Idle
    /\ duplicates = Idle /\ seen_pks = {}

CmpIdle ==
    /\ source_1_entries = Idle /\ source_2_entries = Idle
    /\ source_1_missingPK = Idle /\ source_2_missingPK = Idle
    /\ source_1_duplicates = Idle /\ source_2_duplicates = Idle
    /\ source_1_entries_copy = Idle /\ source_2_entries_copy = Idle
    /\ source_1_extra = Idle /\ source_2_extra = Idle
    /\ differences = Idle /\ entry_idx = 0 /\ report_idx = 0 /\ reports = Idle

DiffIdle ==
    /\ dict_1 = Idle /\ dict_2 = Idle /\ difference = Idle

\* read_source_csv is entered: lines 183-189 and the header row
InitRead ==
    /\ pc = "read_loop"
    /\ error = "none"
    /\ mapping_dict = SampleMapping
    /\ translations_dict = SampleTranslations
    /\ filtering_list \in FilterLists
    /\ headers \in HeaderChoices
    /\ rows \in SeqsUpTo(RowsOf(headers), MaxRows)
    /\ row_idx = 0
    /\ entries = <<>>
    /\ missing_pks = <<>>
    /\ duplicates = <<>>
    /\ seen_pks = {}
    /\ MapIdle /\ CmpIdle /\ DiffIdle

ReadState == [entries |-> entries, missing_pks |-> missing_pks,
              duplicates |-> duplicates, seen_pks |-> seen_pks,
              error |-> "none"]

\* one iteration of "for entry in reader"
ReadRow ==
    /\ pc = "read_loop"
    /\ row_idx < Len(rows)
    /\ LET st == RowStep(ReadState, rows[row_idx + 1],
                         ReadHeaders(headers, mapping_dict),
                         translations_dict, filtering_list)
       IN  /\ entries' = st.entries
           /\ missing_pks' = st.missing_pks
           /\ duplicates' = st.duplicates
           /\ seen_pks' = st.seen_pks
           /\ error' = st.error
           /\ pc' = IF st.error = "none" THEN "read_loop" ELSE "read_error"
    /\ row_idx' = row_idx + 1
    /\ UNCHANGED <<mapping_dict, translations_dict, filtering_list, headers, rows,
                   mapVars, cmpVars, diffVars>>

\* the reader is exhausted: sort both lists and return
ReadReturn ==
    /\ pc = "read_loop"
    /\ row_idx = Len(rows)
    /\ entries' = SortByPk(entries)
    /\ duplicates' = SortByPk(duplicates)
    /\ pc' = "read_done"
    /\ UNCHANGED <<error, mapping_dict, translations_dict, filtering_list, headers,
                   rows, row_idx, missing_pks, seen_pks, mapVars, cmpVars, diffVars>>

NextRead == ReadRow \/ ReadReturn

SpecRead == InitRead /\ [][NextRead]_vars

----------------------------------------------------------------------------
(* make_difference_entry *)

\* the sentinel "*same*"
Same == <<"*", "s", "a", "m", "e", "*">>

\* f"{key}-[{source_name}]"
Label(key, source_name) == key \o "-[" \o source_name \o "]"

KeyMismatchMessage ==
    "ValueError: ERROR: Something went wrong when finding entries to take the difference of"

SchemaMismatchMessage ==
    "ValueError: ERROR: One of the sources is incorrectly formatted"

\* the loop over dict_1.keys() with the lookup dict_2[key] of a missing key
\* skipped instead of raised
RECURSIVE DifferenceLoopSkipMissing(_, _, _, _, _, _)
DifferenceLoopSkipMissing(diff, keys, d1, d2, name_1, name_2) ==
    IF keys = {} \/ diff.error # "none" THEN diff
    ELSE LET key == CHOOSE k \in keys : TRUE IN
         IF key = "primary_key" \/ key \notin DOMAIN d2
         THEN DifferenceLoopSkipMissing(diff, keys \ {key}, d1, d2, name_1, name_2)
         ELSE DifferenceLoopSkipMissing(
                  [diff EXCEPT !.difference =
                      DictPut(DictPut(@, Label(key, name_1), d1[key]),
                              Label(key, name_2),
                              IF d1[key] = d2[key] THEN Same ELSE d2[key])],
                  keys \ {key}, d1, d2, name_1, name_2)

\* the loop over dict_1.keys(): the entry built so far, or the ValueError
RECURSIVE DifferenceLoop(_, _, _, _, _, _)
DifferenceLoop(diff, keys, d1, d2, name_1, name_2) ==
    IF keys = {} \/ diff.error # "none" THEN diff
    ELSE LET key   == CHOOSE k \in keys : TRUE
             with1 == DictPut(diff.difference, Label(key, name_1), d1[key])
         IN  IF key = "primary_key"
             THEN DifferenceLoop(diff, keys \ {key}, d1, d2, name_1, name_2)
             ELSE IF key \notin DOMAIN d2
             THEN [diff EXCEPT !.error = SchemaMismatchMessage]
             ELSE DifferenceLoop(
                      [diff EXCEPT !.difference =
                          DictPut(with1, Label(key, name_2),
                                  IF d1[key] = d2[key] THEN Same ELSE d2[key])],
                      keys \ {key}, d1, d2, name_1, name_2)

\* the function with the sentinel left out: the second value is always stored
MakeDifferenceEntryNoSentinel(d1, d2, name_1, name_2) ==
    IF d1["primary_key"] # d2["primary_key"]
    THEN [error |-> KeyMismatchMessage]
    ELSE IF \E key \in DOMAIN d1 : key \notin DOMAIN d2
    THEN [error |-> SchemaMismatchMessage]
    ELSE [error |-> "none",
          difference |->
              [l \in {"primary_key"}
                     \cup {Label(k, name_1) : k \in DOMAIN d1 \ {"primary_key"}}
                     \cup {Label(k, name_2) : k \in DOMAIN d1 \ {"primary_key"}} |->
                  IF l = "primary_key" THEN d1["primary_key"]
                  ELSE LET k == CHOOSE k \in DOMAIN d1 \ {"primary_key"} :
                                    l \in {Label(k, name_1), Label(k, name_2)}
                       IN  IF l = Label(k, name_1) THEN d1[k] ELSE d2[k]]]

\* the function iterating over dict_2.keys() instead of dict_1.keys()
MakeDifferenceEntryOverDict2(d1, d2, name_1, name_2) ==
    IF d1["primary_key"] # d2["primary_key"]
    THEN [error |-> KeyMismatchMessage]
    ELSE IF \E key \in DOMAIN d1 : key \notin DOMAIN d2
    THEN [error |-> SchemaMismatchMessage]
    ELSE [error |-> "none",
          difference |->
              [l \in {"primary_key"}
                     \cup {Label(k, name_1) : k \in DOMAIN d2 \ {"primary_key"}}
                     \cup {Label(k, name_2) : k \in DOMAIN d2 \ {"primary_key"}} |->
                  IF l = "primary_key" THEN d1["primary_key"]
                  ELSE LET k == CHOOSE k \in DOMAIN d2 \ {"primary_key"} :
                                    l \in {Label(k, name_1), Label(k, name_2)}
                       IN  IF l = Label(k, name_2)
                           THEN (IF k \in DOMAIN d1 /\ d1[k] = d2[k] THEN Same ELSE d2[k])
                           ELSE (IF k \in DOMAIN d1 THEN d1[k] ELSE d2[k])]]

\* the function without its two failures: no key check, missing fields skipped
MakeDifferenceEntryLenient(d1, d2, name_1, name_2) ==
    DifferenceLoopSkipMissing(
        [error |-> "none", difference |-> [primary_key |-> d1["primary_key"]]],
        DOMAIN d1, d1, d2, name_1, name_2)

\* the difference entry of two records, or the ValueError raised
make_difference_entry(d1, d2, name_1, name_2) ==
    IF d1["primary_key"] # d2["primary_key"]
    THEN [error |-> KeyMismatchMessage]
    ELSE LET diff == DifferenceLoop(
                         [error |-> "none",
                          difference |-> [primary_key |-> d1["primary_key"]]],
                         DOMAIN d1, d1, d2, name_1, name_2)
         IN  IF diff.error # "none" THEN [error |-> diff.error] ELSE diff

\* make_difference_entry is called on two records
InitDifference ==
    /\ pc = "diff_call"
    /\ error = "none"
    /\ mapping_dict = Idle
    /\ dict_1 \in DiffRecords
    /\ dict_2 \in DiffRecords
    /\ difference = Idle
    /\ MapIdle /\ ReadIdle /\ CmpIdle

\* the call returns the entry or raises
DifferenceCall ==
    /\ pc = "diff_call"
    /\ LET diff == make_difference_entry(dict_1, dict_2, source_1_name, source_2_name)
       IN  /\ error' = diff.error
           /\ pc' = IF diff.error = "none" THEN "diff_done" ELSE "diff_error"
           /\ difference' = IF diff.error = "none" THEN diff.difference ELSE Idle
    /\ UNCHANGED <<mapping_dict, dict_1, dict_2, mapVars, readVars, cmpVars>>

----------------------------------------------------------------------------
(* make_result_csv and compare_sources *)

\* make_result_csv: the file is written from source_data[0].keys(), so an
\* empty list raises IndexError
make_result_csv(rep, source_name, source_data, csv_type) ==
    IF source_data = <<>>
    THEN [reports |-> Append(rep, [source_name |-> source_name,
                                   csv_type |-> csv_type,
                                   source_data |-> source_data]),
          error |-> "IndexError"]
    ELSE [reports |-> Append(rep, [source_name |-> source_name,
                                   csv_type |-> csv_type,
                                   source_data |-> source_data]),
          error |-> "none"]

RemoveMessage == "ValueError: list.remove(x): x not in list"

\* the matched branch with the removals made on the copies
CompareStepOnCopies(st, entry) ==
    LET entry_pk == entry["primary_key"]
        matches  == SelectSeq(st.source_2_entries_copy,
                              LAMBDA x : x["primary_key"] = entry_pk)
    IN  IF Len(matches) > 1 THEN st
        ELSE IF Len(matches) = 0
        THEN [st EXCEPT !.source_1_extra = Append(@, entry)]
        ELSE LET match == matches[1]
                 diff  == make_difference_entry(entry, match,
                                                source_1_name, source_2_name)
             IN  IF entry # match /\ diff.error # "none"
                 THEN [st EXCEPT !.error = diff.error]
                 ELSE [st EXCEPT
                         !.differences = IF entry # match
                                         THEN Append(@, diff.difference) ELSE @,
                         !.source_1_entries_copy = ListRemove(@, entry),
                         !.source_2_entries_copy = ListRemove(@, match)]

\* the matched branch without source_2_entries.remove(match)
CompareStepKeepMatch(st, entry) ==
    LET entry_pk == entry["primary_key"]
        matches  == SelectSeq(st.source_2_entries_copy,
                              LAMBDA x : x["primary_key"] = entry_pk)
    IN  IF Len(matches) > 1 THEN st
        ELSE IF Len(matches) = 0
        THEN [st EXCEPT !.source_1_extra = Append(@, entry)]
        ELSE LET match == matches[1]
                 diff  == make_difference_entry(entry, match,
                                                source_1_name, source_2_name)
             IN  IF entry # match /\ diff.error # "none"
                 THEN [st EXCEPT !.error = diff.error]
                 ELSE [st EXCEPT
                         !.differences = IF entry # match
                                         THEN Append(@, diff.difference) ELSE @,
                         !.source_1_entries = ListRemove(@, entry)]

\* the body of "for entry in source_1_entries_copy"
CompareStep(st, entry) ==
    LET entry_pk == entry["primary_key"]
        matches  == SelectSeq(st.source_2_entries_copy,
                              LAMBDA x : x["primary_key"] = entry_pk)
    IN  IF Len(matches) > 1 THEN st
        ELSE IF Len(matches) = 0
        THEN [st EXCEPT !.source_1_extra = Append(@, entry)]
        ELSE LET match == matches[1]
                 diff  == make_difference_entry(entry, match,
                                                source_1_name, source_2_name)
                 diffs == IF entry # match
                          THEN Append(st.differences, diff.difference)
                          ELSE st.differences
             IN  IF entry # match /\ diff.error # "none"
                 THEN [st EXCEPT !.error = diff.error]
                 ELSE IF entry \notin Range(st.source_1_entries)
                         \/ match \notin Range(st.source_2_entries)
                 THEN [st EXCEPT !.differences = diffs, !.error = RemoveMessage]
                 ELSE [st EXCEPT
                         !.differences = diffs,
                         !.source_1_entries = ListRemove(@, entry),
                         !.source_2_entries = ListRemove(@, match)]

\* the state of the reconciliation at line 305
CompareStart(index_1, index_2) ==
    [source_1_entries |-> index_1, source_2_entries |-> index_2,
     source_1_entries_copy |-> index_1, source_2_entries_copy |-> index_2,
     source_1_extra |-> <<>>, differences |-> <<>>, error |-> "none"]

RECURSIVE CompareLoop(_, _)
CompareLoop(st, idx) ==
    IF idx > Len(st.source_1_entries_copy) \/ st.error # "none" THEN st
    ELSE CompareLoop(CompareStep(st, st.source_1_entries_copy[idx]), idx + 1)

\* lines 298-322: the three collections, or the exception raised
Reconcile(index_1, index_2) ==
    LET st == CompareLoop(CompareStart(index_1, index_2), 1) IN
    IF st.error # "none"
    THEN [error |-> st.error]
    ELSE [error |-> "none",
          source_1_extra |-> st.source_1_extra,
          source_2_extra |-> st.source_2_entries,
          differences |-> st.differences]

\* "if len(...) > 0" with the test always true
ReportWantedAlways(source_data) == TRUE

\* the guard "if len(...) > 0" before each call of make_result_csv
ReportWanted(source_data) == Len(source_data) > 0

\* the seven guarded calls of make_result_csv, in the order of lines 326-346
ReportJobs ==
    << [source_name |-> source_1_name, source_data |-> source_1_missingPK,
        csv_type |-> "missingPK"],
       [source_name |-> source_2_name, source_data |-> source_2_missingPK,
        csv_type |-> "missingPK"],
       [source_name |-> source_1_name, source_data |-> source_1_duplicates,
        csv_type |-> "duplicates"],
       [source_name |-> source_2_name, source_data |-> source_2_duplicates,
        csv_type |-> "duplicates"],
       [source_name |-> source_1_name, source_data |-> source_1_extra,
        csv_type |-> "extra"],
       [source_name |-> source_2_name, source_data |-> source_2_extra,
        csv_type |-> "extra"],
       [source_name |-> source_1_name \o " " \o source_2_name,
        source_data |-> differences, csv_type |-> "differences"] >>

\* the sources of the compare_sources runs
CmpHeaderChoices == {<<"Ref", "Name">>, <<"Ref", "Name", "State">>}

CmpFilteringList == <<>>

\* what read_source_csv returns for the source files of the model
CmpSources ==
    {src \in UNION {{read_source_csv(hs, rs, SampleMapping, SampleTranslations,
                                     CmpFilteringList) :
                        rs \in SeqsUpTo(RowsOf(hs) \ {<<>>}, MaxSourceRows)} :
                    hs \in CmpHeaderChoices} :
        src.error = "none"}

\* compare_sources at line 305: both sources read, the copies made
InitCompare ==
    /\ pc = "cmp_loop"
    /\ error = "none"
    /\ mapping_dict = SampleMapping
    /\ \E src_1, src_2 \in CmpSources :
        /\ source_1_entries = src_1.entries
        /\ source_1_missingPK = src_1.missing_pks
        /\ source_1_duplicates = src_1.duplicates
        /\ source_2_entries = src_2.entries
        /\ source_2_missingPK = src_2.missing_pks
        /\ source_2_duplicates = src_2.duplicates
        /\ source_1_entries_copy = src_1.entries
        /\ source_2_entries_copy = src_2.entries
    /\ source_1_extra = <<>>
    /\ source_2_extra = <<>>
    /\ differences = <<>>
    /\ entry_idx = 0
    /\ report_idx = 0
    /\ reports = <<>>
    /\ MapIdle /\ ReadIdle /\ DiffIdle

CompareState ==
    [source_1_entries |-> source_1_entries, source_2_entries |-> source_2_entries,
     source_1_entries_copy |-> source_1_entries_copy,
     source_2_entries_copy |-> source_2_entries_copy,
     source_1_extra |-> source_1_extra, differences |-> differences,
     error |-> "none"]

\* one iteration of "for entry in source_1_entries_copy"
CompareEntry ==
    /\ pc = "cmp_loop"
    /\ entry_idx < Len(source_1_entries_copy)
    /\ LET st == CompareStep(CompareState, source_1_entries_copy[entry_idx + 1])
       IN  /\ source_1_entries' = st.source_1_entries
           /\ source_2_entries' = st.source_2_entries
           /\ source_1_entries_copy' = st.source_1_entries_copy
           /\ source_2_entries_copy' = st.source_2_entries_copy
           /\ source_1_extra' = st.source_1_extra
           /\ differences' = st.differences
           /\ error' = st.error
           /\ pc' = IF st.error = "none" THEN "cmp_loop" ELSE "cmp_error"
    /\ entry_idx' = entry_idx + 1
    /\ UNCHANGED <<mapping_dict, source_1_missingPK, source_2_missingPK,
                   source_1_duplicates, source_2_duplicates, source_2_extra,
                   report_idx, reports, mapVars, readVars, diffVars>>

\* line 322: source_2_extra.extend(source_2_entries)
CompareExtend ==
    /\ pc = "cmp_loop"
    /\ entry_idx >= Len(source_1_entries_copy)
    /\ source_2_extra' = source_2_extra \o source_2_entries
    /\ pc' = "cmp_report"
    /\ UNCHANGED <<error, mapping_dict, entry_idx, report_idx,
                   source_1_entries, source_2_entries,
                   source_1_missingPK, source_2_missingPK, source_1_duplicates,
                   source_2_duplicates, source_1_entries_copy,
                   source_2_entries_copy, source_1_extra, differences, reports,
                   mapVars, readVars, diffVars>>

\* one of the guarded calls of make_result_csv
CompareReport ==
    /\ pc = "cmp_report"
    /\ report_idx < Len(ReportJobs)
    /\ LET job == ReportJobs[report_idx + 1]
           res == IF ReportWanted(job.source_data)
                  THEN make_result_csv(reports, job.source_name,
                                       job.source_data, job.csv_type)
                  ELSE [reports |-> reports, error |-> "none"]
       IN  /\ reports' = res.reports
           /\ error' = res.error
           /\ pc' = IF res.error # "none" THEN "cmp_error"
                    ELSE IF report_idx + 1 = Len(ReportJobs) THEN "cmp_done"
                    ELSE "cmp_report"
    /\ report_idx' = report_idx + 1
    /\ UNCHANGED <<mapping_dict, entry_idx, source_1_entries, source_2_entries,
                   source_1_missingPK, source_2_missingPK, source_1_duplicates,
                   source_2_duplicates, source_1_entries_copy,
                   source_2_entries_copy, source_1_extra, source_2_extra,
                   differences, mapVars, readVars, diffVars>>

InitReconcile == InitCompare \/ InitDifference

NextReconcile == CompareEntry \/ CompareExtend \/ CompareReport \/ DifferenceCall

SpecReconcile == InitReconcile /\ [][NextReconcile]_vars

----------------------------------------------------------------------------
(* compare_sources under a mapping file that gives a value column the
   standard name "primary_key", the name entry_dict keeps the composite key
   under (line 214); line 223 then assigns the column's value to it. *)

\* make_mapping_dict accepts the file: every name of primary_keys is mapped
ReservedMapping ==
    [h \in (DOMAIN SampleMapping) \cup {"Tag"} |->
        IF h = "Tag" THEN "primary_key" ELSE SampleMapping[h]]

GuardMappings == {SampleMapping, ReservedMapping}

\* the header row of both source files
GuardHeaders == <<"Ref", "Tag", "Name">>

GuardFilterLists == {<<>>, << <<"primary_key", <<"a">>>> >>}

\* what read_source_csv returns for the source files under mapping md
GuardSources(md) ==
    {src \in {read_source_csv(GuardHeaders, rs, md, SampleTranslations,
                              CmpFilteringList) :
                 rs \in SeqsUpTo(RowsOf(GuardHeaders) \ {<<>>}, MaxSourceRows)} :
        src.error = "none"}

\* read_source_csv is entered on one of the source files
InitGuardRead ==
    /\ pc = "read_loop"
    /\ error = "none"
    /\ mapping_dict \in GuardMappings
    /\ translations_dict = SampleTranslations
    /\ filtering_list \in GuardFilterLists
    /\ headers = GuardHeaders
    /\ rows \in SeqsUpTo(RowsOf(headers), MaxRows)
    /\ row_idx = 0
    /\ entries = <<>>
    /\ missing_pks = <<>>
    /\ duplicates = <<>>
    /\ seen_pks = {}
    /\ MapIdle /\ CmpIdle /\ DiffIdle

\* compare_sources at line 305: both files read under the same mapping
InitGuardCompare ==
    /\ pc = "cmp_loop"
    /\ error = "none"
    /\ mapping_dict \in GuardMappings
    /\ \E src_1, src_2 \in GuardSources(mapping_dict) :
        /\ source_1_entries = src_1.entries
        /\ source_1_missingPK = src_1.missing_pks
        /\ source_1_duplicates = src_1.duplicates
        /\ source_2_entries = src_2.entries
        /\ source_2_missingPK = src_2.missing_pks
        /\ source_2_duplicates = src_2.duplicates
        /\ source_1_entries_copy = src_1.entries
        /\ source_2_entries_copy = src_2.entries
    /\ source_1_extra = <<>>
    /\ source_2_extra = <<>>
    /\ differences = <<>>
    /\ entry_idx = 0
    /\ report_idx = 0
    /\ reports = <<>>
    /\ MapIdle /\ ReadIdle /\ DiffIdle

InitGuards == InitGuardRead \/ InitGuardCompare

NextGuards == ReadRow \/ ReadReturn \/ CompareEntry \/ CompareExtend \/ CompareReport

SpecGuards == InitGuards /\ [][NextGuards]_vars

----------------------------------------------------------------------------
(* make_mapping_dict *)

ModeMessage       == "ValueError: ERROR: incorrect mode for make_mapping_dict"
ShortLineMessage(m) == "IndexError: ERROR: " \o m \o " csv not formatted properly"
DuplicateMessage  == "IOError: ERROR: Duplicate source values found in mapping csv"
MissingPkMessage  ==
    "IOError: ERROR: Missing a primary key as a standard mapping value in mapping csv"

DictValues(d) == {d[k] : k \in DOMAIN d}

\* the body of "for line in reader"
MapLineStep(md, line, m) ==
    IF Len(line) < 2
    THEN [mapping_dict |-> md, error |-> ShortLineMessage(m)]
    ELSE LET source_name   == line[2]
             standard_name == line[1]
         IN  IF source_name \notin DOMAIN md
             THEN [mapping_dict |-> DictPut(md, source_name, standard_name),
                   error |-> "none"]
             ELSE [mapping_dict |-> md, error |-> DuplicateMessage]

\* the test of line 128 with the two modes exchanged
PkCheckRunsInTranslations(m) == m = "translations"

\* line 128: the primary keys are checked in mode "mapping" only
PkCheckRuns(m) == m = "mapping"

\* lines 130-131: every primary key is a value of the dictionary
PrimaryKeysMapped(md) ==
    \A i \in DOMAIN primary_keys : primary_keys[i] \in DictValues(md)

\* the lines a mapping or translations file can hold after its header line
MapLines ==
    {<<>>, <<"id">>, <<"id", "Key", "note">>}
    \cup {<<standard_name, source_name>> :
             standard_name \in {"id", "full_name"}, source_name \in {"ID", "Name"}}

HeaderLine == <<"standard", "source">>

MapFiles ==
    {<<>>} \cup {<<HeaderLine>> \o body : body \in SeqsUpTo(MapLines, MaxLines)}

\* make_mapping_dict is called on a file
InitMap ==
    /\ pc = "map_start"
    /\ error = "none"
    /\ mapping_csv \in MapFiles
    /\ mode \in {"mapping", "translations", "filtering"}
    /\ line_idx = 0
    /\ mapping_dict = Idle
    /\ ReadIdle /\ CmpIdle /\ DiffIdle

\* lines 99-111: the mode is checked, the file opened and its header skipped
MapStart ==
    /\ pc = "map_start"
    /\ IF mode \notin {"mapping", "translations"}
       THEN /\ error' = ModeMessage
            /\ pc' = "map_error"
            /\ UNCHANGED <<mapping_dict, line_idx>>
       ELSE IF mapping_csv = <<>>
       THEN /\ error' = "StopIteration"
            /\ pc' = "map_error"
            /\ mapping_dict' = EmptyDict
            /\ UNCHANGED line_idx
       ELSE /\ mapping_dict' = EmptyDict
            /\ line_idx' = 1
            /\ pc' = "map_loop"
            /\ UNCHANGED error
    /\ UNCHANGED <<mapping_csv, mode, readVars, cmpVars, diffVars>>

\* one iteration of "for line in reader"
MapLine ==
    /\ pc = "map_loop"
    /\ line_idx < Len(mapping_csv)
    /\ LET res == MapLineStep(mapping_dict, mapping_csv[line_idx + 1], mode)
       IN  /\ mapping_dict' = res.mapping_dict
           /\ error' = res.error
           /\ pc' = IF res.error = "none" THEN "map_loop" ELSE "map_error"
    /\ line_idx' = line_idx + 1
    /\ UNCHANGED <<mapping_csv, mode, readVars, cmpVars, diffVars>>

\* lines 128-137: the check of the primary keys and the return
MapReturn ==
    /\ pc = "map_loop"
    /\ line_idx = Len(mapping_csv)
    /\ IF PkCheckRuns(mode) /\ ~PrimaryKeysMapped(mapping_dict)
       THEN /\ error' = MissingPkMessage
            /\ pc' = "map_error"
       ELSE /\ pc' = "map_done"
            /\ UNCHANGED error
    /\ UNCHANGED <<mapping_dict, mapping_csv, mode, line_idx, readVars, cmpVars,
                   diffVars>>

NextMap == MapStart \/ MapLine \/ MapReturn

SpecMap == InitMap /\ [][NextMap]_vars

----------------------------------------------------------------------------
(* Properties of read_source_csv. *)

Count(list, r) == Cardinality({i \in DOMAIN list : list[i] = r})

PkOf(list) == {list[i]["primary_key"] : i \in DOMAIN list}

ReadHdr == ReadHeaders(headers, mapping_dict)

\* the record built from data row i
RowRecord(i) == EntryDict(rows[i], ReadHdr, translations_dict)

\* data row i matches at least one filter rule on its built record
RowMatchesRule(i) ==
    \E k \in DOMAIN filtering_list :
        /\ filtering_list[k][1] \in DOMAIN RowRecord(i)
        /\ RowRecord(i)[filtering_list[k][1]] = filtering_list[k][2]

\* the non-filtered rows among the rows consumed so far
KeptRows == {i \in 1..row_idx : ~RowMatchesRule(i)}

KeptWithKey(k) == {i \in KeptRows : RowRecord(i)["primary_key"] = k}

KeptWithRecord(r) == {i \in KeptRows : RowRecord(i) = r}

ReadRunning == pc \in {"read_loop", "read_done"}

\* C1: after any prefix of the data rows, and for the returned lists, the
\* index holds at most one record per composite key and no key that occurs
\* in duplicates has a record in the index.
C1_IndexKeysUnique ==
    ReadRunning =>
        /\ \A i, j \in DOMAIN entries :
               i # j => entries[i]["primary_key"] # entries[j]["primary_key"]
        /\ PkOf(duplicates) \cap PkOf(entries) = {}

\* a returned index next to a quarantined pair
C1_Witness ==
    /\ pc = "read_done"
    /\ Len(entries) >= 1
    /\ Len(duplicates) >= 2

\* C2: every non-filtered row is in exactly one of the three returned lists:
\* a row with an empty composite key in missing_pks only, the only row of a
\* key in the index only, and all n >= 2 rows of a key in duplicates only,
\* each as often as it occurs in the file.
C2_RowsPartitioned ==
    pc = "read_done" =>
        /\ Len(entries) + Len(missing_pks) + Len(duplicates) = Cardinality(KeptRows)
        /\ \A i \in KeptRows :
            LET r == RowRecord(i)
                k == r["primary_key"]
                n == Cardinality(KeptWithRecord(r))
            IN  IF k = <<>>
                THEN /\ Count(missing_pks, r) = n
                     /\ Count(entries, r) = 0
                     /\ Count(duplicates, r) = 0
                ELSE IF Cardinality(KeptWithKey(k)) = 1
                THEN /\ Count(entries, r) = 1
                     /\ k \notin PkOf(duplicates)
                     /\ Count(missing_pks, r) = 0
                ELSE /\ Count(duplicates, r) = n
                     /\ k \notin PkOf(entries)
                     /\ Count(missing_pks, r) = 0

\* three rows of one key: the first-seen record and both later collisions
\* are quarantined
C2_Witness ==
    /\ pc = "read_done"
    /\ Len(duplicates) = 3
    /\ Cardinality(PkOf(duplicates)) = 1
    /\ entries = <<>>

\* the lists returned, or the exception raised
ReadResult ==
    IF pc = "read_error"
    THEN [error |-> error]
    ELSE [error |-> "none", entries |-> entries, missing_pks |-> missing_pks,
          duplicates |-> duplicates]

RuleOrders(fl) ==
    {p \in [DOMAIN fl -> Range(fl)] : \A k \in DOMAIN fl : Count(p, fl[k]) = Count(fl, fl[k])}

\* the data rows that match no rule
UnfilteredRows == LET Keep(i) == ~RowMatchesRule(i) IN
    [k \in 1..Cardinality({i \in 1..Len(rows) : Keep(i)}) |->
        rows[CHOOSE i \in 1..Len(rows) :
                /\ Keep(i)
                /\ Cardinality({j \in 1..i : Keep(j)}) = k]]

\* C3: a row that matches a filter rule is dropped entirely: no returned
\* record matches a rule, the returned lists are those of the file without
\* the matching rows (so a filtered row marks no key as seen), and the
\* result does not depend on the order of the rules.
C3_FilteredRowsDropped ==
    /\ pc = "read_done" =>
        /\ \A i \in 1..Len(rows) :
               RowMatchesRule(i) =>
                   /\ Count(entries, RowRecord(i)) = 0
                   /\ Count(missing_pks, RowRecord(i)) = 0
                   /\ Count(duplicates, RowRecord(i)) = 0
        /\ ReadResult = read_source_csv(headers, UnfilteredRows, mapping_dict,
                                        translations_dict, <<>>)
    /\ pc \in {"read_done", "read_error"} =>
        \A p \in RuleOrders(filtering_list) :
            read_source_csv(headers, rows, mapping_dict, translations_dict, p)
                = ReadResult

\* a filtered row shares its key with a kept row, which stays in the index,
\* under a list of two rules
C3_Witness ==
    /\ pc = "read_done"
    /\ Len(filtering_list) = 2
    /\ \E i, j \in 1..Len(rows) :
        /\ RowMatchesRule(i)
        /\ ~RowMatchesRule(j)
        /\ RowRecord(i)["primary_key"] = RowRecord(j)["primary_key"]
        /\ RowRecord(j)["primary_key"] # <<>>
        /\ Count(entries, RowRecord(j)) = 1

----------------------------------------------------------------------------
(* Properties of the reconciliation. *)

\* the record of an index with key k
RecOf(index, k) == CHOOSE r \in Range(index) : r["primary_key"] = k

\* the loop of compare_sources has completed without an exception
LoopCompleted == pc \in {"cmp_report", "cmp_done"}

CmpRunning == pc \in {"cmp_loop", "cmp_report", "cmp_done"}

\* the keys in both indices whose two records are not identical
DifferingKeys ==
    {k \in PkOf(source_1_entries_copy) \cap PkOf(source_2_entries_copy) :
        RecOf(source_1_entries_copy, k) # RecOf(source_2_entries_copy, k)}

\* C4: when the loop completes without error, extra_1 is exactly the source-1
\* records whose key is absent from source 2, extra_2 exactly the source-2
\* records whose key is absent from source 1, and differences holds exactly
\* one entry for each key in both whose records are not identical (so an
\* identical pair yields neither an extra nor a difference entry).
C4_ReconcileSets ==
    LoopCompleted =>
        LET only_1 == {r \in Range(source_1_entries_copy) :
                          r["primary_key"] \notin PkOf(source_2_entries_copy)}
            only_2 == {r \in Range(source_2_entries_copy) :
                          r["primary_key"] \notin PkOf(source_1_entries_copy)}
        IN  /\ Range(source_1_extra) = only_1
            /\ Len(source_1_extra) = Cardinality(only_1)
            /\ Range(source_2_extra) = only_2
            /\ Len(source_2_extra) = Cardinality(only_2)
            /\ PkOf(differences) = DifferingKeys
            /\ Len(differences) = Cardinality(DifferingKeys)

\* an extra of each source next to a matched pair that differs
C4_Witness ==
    /\ pc = "cmp_done"
    /\ Len(source_1_extra) = 1
    /\ Len(source_2_extra) = 1
    /\ Len(differences) = 1

StandardFields == {"full_name", "status"}

L1(f) == Label(f, source_1_name)
L2(f) == Label(f, source_2_name)

\* entry e is entry d with the two source labels exchanged
LabelSwapped(d, e) ==
    /\ d["primary_key"] = e["primary_key"]
    /\ DOMAIN d = DOMAIN e
    /\ \A f \in StandardFields :
           L1(f) \in DOMAIN d =>
               /\ d[L1(f)] = e[L2(f)]
               /\ d[L2(f)] = e[L1(f)]

\* the reconciliation of the same two indices in the other order
Reversed == Reconcile(source_2_entries_copy, source_1_entries_copy)

VisitedKeys == {source_1_entries_copy[i]["primary_key"] : i \in 1..entry_idx}

\* C6 as stated: the indices returned by read_source_csv are left unchanged
\* by the reconciliation pass.
C6_Original ==
    [][CmpRunning => /\ source_1_entries' = source_1_entries
                     /\ source_2_entries' = source_2_entries]_vars

\* C6 (amended): the pass iterates over and looks up matches in the copies,
\* which it leaves unchanged; the matched records are removed from the
\* indices returned by read_source_csv themselves, source_1_entries and
\* source_2_entries.
C6_CopiesKept ==
    /\ [][CmpRunning => /\ source_1_entries_copy' = source_1_entries_copy
                        /\ source_2_entries_copy' = source_2_entries_copy]_vars
    /\ [](CmpRunning =>
            /\ source_1_entries =
                   SelectSeq(source_1_entries_copy,
                       LAMBDA r : ~(/\ r["primary_key"] \in VisitedKeys
                                    /\ r["primary_key"] \in PkOf(source_2_entries_copy)))
            /\ source_2_entries =
                   SelectSeq(source_2_entries_copy,
                       LAMBDA r : r["primary_key"] \notin VisitedKeys))

\* a matched record is gone from both returned indices and still in the copies
C6_Witness ==
    /\ pc = "cmp_done"
    /\ Len(source_1_entries) < Len(source_1_entries_copy)
    /\ Len(source_2_entries) < Len(source_2_entries_copy)

\* C7: for two records with the same key where every field of record_1 is in
\* record_2, the entry holds the primary key and, for every non-key field f
\* of record_1 and nothing else, f-[name_1] = record_1[f] and f-[name_2] =
\* record_2[f] if the values differ, the sentinel if they are equal.
C7_DifferenceEntry ==
    (/\ pc \in {"diff_done", "diff_error"}
     /\ dict_1["primary_key"] = dict_2["primary_key"]
     /\ DOMAIN dict_1 \subseteq DOMAIN dict_2) =>
        /\ pc = "diff_done"
        /\ DOMAIN difference =
               {"primary_key"}
               \cup {L1(f) : f \in DOMAIN dict_1 \ {"primary_key"}}
               \cup {L2(f) : f \in DOMAIN dict_1 \ {"primary_key"}}
        /\ difference["primary_key"] = dict_1["primary_key"]
        /\ \A f \in DOMAIN dict_1 \ {"primary_key"} :
            /\ difference[L1(f)] = dict_1[f]
            /\ difference[L2(f)] = IF dict_1[f] = dict_2[f] THEN Same ELSE dict_2[f]

\* record_2 has a field more; one shared field agrees, the other differs
C7_Witness ==
    /\ pc = "diff_done"
    /\ DOMAIN dict_1 = {"primary_key", "full_name"}
    /\ DOMAIN dict_2 = {"primary_key", "full_name", "status"}
    /\ dict_1["full_name"] # dict_2["full_name"]
    /\ difference[L2("full_name")] = dict_2["full_name"]

\* the matched pair of the iteration that just ran
LastEntry == source_1_entries_copy[entry_idx]

\* C8: make_difference_entry fails with the key-mismatch error whenever the
\* keys differ and with the schema-mismatch error whenever (the keys being
\* equal) a non-key field of record_1 is absent from record_2, and returns
\* no entry in either case; in compare_sources the failure ends the run: no
\* entry is added, nothing is reported and no step follows.
C8_DifferenceFailures ==
    /\ pc \in {"diff_done", "diff_error"} =>
        /\ dict_1["primary_key"] # dict_2["primary_key"] =>
               /\ pc = "diff_error"
               /\ error = KeyMismatchMessage
               /\ difference = Idle
        /\ ~(DOMAIN dict_1 \subseteq DOMAIN dict_2) =>
               /\ pc = "diff_error"
               /\ difference = Idle
               /\ dict_1["primary_key"] = dict_2["primary_key"] =>
                      error = SchemaMismatchMessage
    /\ CmpRunning =>
        \A k \in VisitedKeys \cap DifferingKeys :
            DOMAIN RecOf(source_1_entries_copy, k)
                \subseteq DOMAIN RecOf(source_2_entries_copy, k)
    /\ pc = "cmp_error" =>
        /\ error = SchemaMismatchMessage
        /\ LastEntry["primary_key"] \in PkOf(source_2_entries_copy)
        /\ ~(DOMAIN LastEntry
               \subseteq DOMAIN RecOf(source_2_entries_copy, LastEntry["primary_key"]))
        /\ LastEntry["primary_key"] \notin PkOf(differences)
        /\ reports = <<>>
        /\ ~ENABLED NextReconcile

\* the reconciliation is ended by a matched pair whose source-1 record has a
\* field that the source-2 record lacks
C8_Witness ==
    /\ pc = "cmp_error"
    /\ error = SchemaMismatchMessage
    /\ entry_idx = 2

\* C10: make_result_csv is never called with an empty list, and each of the
\* seven collections has been written if and only if it is non-empty.
C10_ReportsIffNonEmpty ==
    /\ \A i \in DOMAIN reports : reports[i].source_data # <<>>
    /\ pc \in {"cmp_report", "cmp_done"} =>
        \A n \in 1..report_idx :
            ReportJobs[n].source_data # <<>>
                <=> \E i \in DOMAIN reports : reports[i] = ReportJobs[n]
    /\ pc = "cmp_done" => report_idx = Len(ReportJobs)

\* a run that writes some of the reports and skips the others
C10_Witness ==
    /\ pc = "cmp_done"
    /\ Len(reports) = 4
    /\ differences = <<>>
    /\ source_1_missingPK # <<>>

----------------------------------------------------------------------------
(* Properties of make_mapping_dict. *)

\* the data lines of the file
DataLines == {i \in 2..Len(mapping_csv) : TRUE}

\* C9: in mode "mapping" a returned mapping has every configured primary-key
\* field among its values, no source name was given twice in the file and
\* the mapping holds exactly the lines of the file; otherwise the call
\* fails.  In mode "translations" the primary-key check is not run: the
\* call never fails for an uncovered primary key and returns such mappings.
C9_PrimaryKeysCovered ==
    /\ pc = "map_done" =>
        /\ mode = "mapping" =>
               \A i \in DOMAIN primary_keys :
                   \E k \in DOMAIN mapping_dict : mapping_dict[k] = primary_keys[i]
        /\ \A i, j \in DataLines :
               i # j => mapping_csv[i][2] # mapping_csv[j][2]
        /\ DOMAIN mapping_dict = {mapping_csv[i][2] : i \in DataLines}
        /\ \A i \in DataLines :
               mapping_dict[mapping_csv[i][2]] = mapping_csv[i][1]
    /\ (pc = "map_error" /\ mode = "translations") => error # MissingPkMessage
    /\ (pc = "map_error" /\ error = MissingPkMessage) =>
           \E i \in DOMAIN primary_keys :
               \A j \in DataLines : mapping_csv[j][1] # primary_keys[i]

\* a mapping of two source names is returned in mode "mapping"
C9_Witness ==
    /\ pc = "map_done"
    /\ mode = "mapping"
    /\ Cardinality(DOMAIN mapping_dict) = 2

----------------------------------------------------------------------------
(* The two guards on "more than one record with this key". *)

\* the records of source 2 that the loop body collects for a source-1 record
MatchesOf(entry) ==
    SelectSeq(source_2_entries_copy,
              LAMBDA x : x["primary_key"] = entry["primary_key"])

\* read_source_csv has not raised the exception of lines 250-252
ReadGuardNotTaken == error # FormatMessage

\* no record the loop has visited had more than one match, so the branch of
\* lines 309-310 has not been taken
CompareGuardNotTaken ==
    \A i \in 1..entry_idx : Len(MatchesOf(source_1_entries_copy[i])) <= 1

\* every source-1 record the loop has visited is in source_1_extra, or has a
\* difference entry, or is identical to its one match in source 2
NoRecordLeftOut ==
    CmpRunning =>
        \A i \in 1..entry_idx :
            LET r == source_1_entries_copy[i] IN
            \/ r \in Range(source_1_extra)
            \/ r["primary_key"] \in PkOf(differences)
            \/ MatchesOf(r) = <<r>>

\* C11: the two internal-invariant guards are unreachable: for every sequence
\* of source rows read_source_csv never finds more than one resident record
\* with the colliding key and never raises its internal consistency failure,
\* and for every pair of indices it produces the reconciliation loop never
\* finds more than one match for a source-1 record, so no source-1 record is
\* left out of both source_1_extra and differences without being matched.
C11_GuardsUnreachable ==
    /\ ReadGuardNotTaken
    /\ CompareGuardNotTaken
    /\ NoRecordLeftOut

\* read_source_csv has raised its internal consistency failure
C11_Witness ==
    /\ pc = "read_error"
    /\ error = FormatMessage
    /\ mapping_dict = ReservedMapping
====
